---------------------------- MODULE Spec2Model ----------------------------
(***************************************************************************)
(* Model of the PrescriberPoint AI service (src/ai-service/main.py): the   *)
(* /health and /enhance handlers running on one event loop, the five       *)
(* prompt builders, the completion client call_claude and the five         *)
(* response shapers.                                                       *)
(*                                                                         *)
(* Text is a sequence of one-character strings.  An Optional value is a    *)
(* sequence of length 0 (None) or 1 (the value).  A JSON value is a record *)
(* [t, v] tagged with its type.                                            *)
(***************************************************************************)
EXTENDS Integers, Sequences, FiniteSets

VARIABLES req, pc, loop, prompt, calls, shaped, reply, resp, log

vars == <<req, pc, loop, prompt, calls, shaped, reply, resp, log>>

(***************************************************************************)
(* Bounds of the model.                                                    *)
(***************************************************************************)
\* requests in flight on the event loop at once
NumReqs == 2
\* longest raw text handed to the `related` shaper
MaxRelLen == 7
\* longest list-valued drug field given to the prompt builders
MaxItems == 2
\* longest FAQ array the provider returns
MaxFaq == 2

(***************************************************************************)
(* Text helpers: Python's str operations used by the source.               *)
(***************************************************************************)
None == <<>>

Some(x) == <<x>>

\* characters str.strip() removes
Whitespace == {" ", "\n", "\t", "\r"}

RECURSIVE LStrip(_)
LStrip(s) ==
    IF s # <<>> /\ Head(s) \in Whitespace THEN LStrip(Tail(s)) ELSE s

RECURSIVE RStrip(_)
RStrip(s) ==
    IF s # <<>> /\ s[Len(s)] \in Whitespace
    THEN RStrip(SubSeq(s, 1, Len(s) - 1))
    ELSE s

\* str.strip()
Strip(s) == RStrip(LStrip(s))

\* str.split(','): cut at every comma, empty pieces kept
RECURSIVE Split(_, _)
Split(s, acc) ==
    IF s = <<>> THEN <<acc>>
    ELSE IF Head(s) = "," THEN <<acc>> \o Split(Tail(s), <<>>)
    ELSE Split(Tail(s), Append(acc, Head(s)))

\* ', '.join(items)
RECURSIVE Join(_)
Join(items) ==
    IF items = <<>> THEN <<>>
    ELSE IF Len(items) = 1 THEN items[1]
    ELSE items[1] \o <<",", " ">> \o Join(Tail(items))

\* related_list[:k]
Take(s, k) == SubSeq(s, 1, IF Len(s) < k THEN Len(s) ELSE k)

\* what an f-string writes for None
NoneText == <<"N", "o", "n", "e">>

NA == <<"N", "/", "A">>

(***************************************************************************)
(* Prompt builders.  A prompt is the sequence of its interpolated lines,   *)
(* each the label of the template line and the text put after it; the      *)
(* fixed instruction text of the templates holds no interpolation.         *)
(***************************************************************************)
Line(label, value) == [label |-> label, value |-> value]

\* {drug.generic_name}: the mutant of StrOrNA, the fallback left out
StrNoFallback(opt) == IF opt = None THEN NoneText ELSE opt[1]

\* {drug.generic_name or 'N/A'}
StrOrNA(opt) == IF opt # None /\ opt[1] # <<>> THEN opt[1] ELSE NA

\* {', '.join(drug.indications) if drug.indications else 'N/A'}
ListOrNA(opt) == IF opt # None /\ opt[1] # <<>> THEN Join(opt[1]) ELSE NA

generate_seo_title_prompt(drug) ==
    << Line("Drug", drug.name),
       Line("Generic Name", StrOrNA(drug.generic_name)),
       Line("Indications", ListOrNA(drug.indications)) >>

generate_meta_description_prompt(drug) ==
    << Line("Drug", drug.name),
       Line("Generic Name", StrOrNA(drug.generic_name)),
       Line("Indications", ListOrNA(drug.indications)),
       Line("Manufacturer", drug.manufacturer) >>

generate_enhanced_content_prompt(drug) ==
    << Line("Drug", drug.name),
       Line("Generic Name", StrOrNA(drug.generic_name)),
       Line("Indications", ListOrNA(drug.indications)),
       Line("Contraindications", ListOrNA(drug.contraindications)),
       Line("Warnings", ListOrNA(drug.warnings)),
       Line("Dosing", StrOrNA(drug.dosing)) >>

generate_faq_prompt(drug) ==
    << Line("Drug", drug.name),
       Line("Generic Name", StrOrNA(drug.generic_name)),
       Line("Indications", ListOrNA(drug.indications)) >>

generate_related_suggestions_prompt(drug) ==
    << Line("researching", drug.name),
       Line("Drug", drug.name),
       Line("Generic Name", StrOrNA(drug.generic_name)),
       Line("Indications", ListOrNA(drug.indications)) >>

(***************************************************************************)
(* JSON values and json.loads, as the standard decoder scans a text:       *)
(* leading whitespace, one value, trailing whitespace, nothing more.       *)
(* \u and \b escapes are left out; no input of the model holds them.       *)
(***************************************************************************)
JNull == [t |-> "null", v |-> <<>>]

JBool(b) == [t |-> "bool", v |-> b]

JInt(n) == [t |-> "int", v |-> n]

\* a float, NaN or Infinity, kept as its lexeme
JFloat(lexeme) == [t |-> "float", v |-> lexeme]

JStr(s) == [t |-> "str", v |-> s]

JArr(items) == [t |-> "list", v |-> items]

\* a dict: its <<key, value>> pairs in insertion order, keys distinct
JObj(pairs) == [t |-> "dict", v |-> pairs]

\* d[key] = value
Put(pairs, key, value) ==
    IF \E i \in 1..Len(pairs) : pairs[i][1] = key
    THEN [i \in 1..Len(pairs) |->
            IF pairs[i][1] = key THEN <<key, value>> ELSE pairs[i]]
    ELSE Append(pairs, <<key, value>>)

Fail == [ok |-> FALSE, val |-> JNull, end |-> 0]

Ok(v, e) == [ok |-> TRUE, val |-> v, end |-> e]

JsonWs == {" ", "\t", "\n", "\r"}

ControlChars == {"\n", "\t", "\r", "\f"}

Digits == {"0", "1", "2", "3", "4", "5", "6", "7", "8", "9"}

DigitVal(c) ==
    CASE c = "0" -> 0 [] c = "1" -> 1 [] c = "2" -> 2 [] c = "3" -> 3
      [] c = "4" -> 4 [] c = "5" -> 5 [] c = "6" -> 6 [] c = "7" -> 7
      [] c = "8" -> 8 [] c = "9" -> 9

Escapes == {"\"", "\\", "/", "n", "r", "t", "f"}

Unescape(c) ==
    CASE c = "n" -> "\n" [] c = "r" -> "\r" [] c = "t" -> "\t"
      [] c = "f" -> "\f" [] OTHER -> c

RECURSIVE SkipWs(_, _)
SkipWs(s, i) ==
    IF i <= Len(s) /\ s[i] \in JsonWs THEN SkipWs(s, i + 1) ELSE i

StartsWith(s, i, lit) ==
    /\ i + Len(lit) - 1 <= Len(s)
    /\ SubSeq(s, i, i + Len(lit) - 1) = lit

RECURSIVE DigitsEnd(_, _)
DigitsEnd(s, i) ==
    IF i <= Len(s) /\ s[i] \in Digits THEN DigitsEnd(s, i + 1) ELSE i

RECURSIVE IntVal(_)
IntVal(ds) ==
    IF ds = <<>> THEN 0
    ELSE 10 * IntVal(SubSeq(ds, 1, Len(ds) - 1)) + DigitVal(ds[Len(ds)])

\* the text from the opening quote's successor i to the closing quote
RECURSIVE ScanString(_, _, _)
ScanString(s, i, acc) ==
    IF i > Len(s) THEN Fail
    ELSE IF s[i] = "\"" THEN Ok(JStr(acc), i + 1)
    ELSE IF s[i] = "\\"
    THEN IF i + 1 <= Len(s) /\ s[i + 1] \in Escapes
         THEN ScanString(s, i + 2, Append(acc, Unescape(s[i + 1])))
         ELSE Fail
    ELSE IF s[i] \in ControlChars THEN Fail
    ELSE ScanString(s, i + 1, Append(acc, s[i]))

\* NUMBER_RE: (-?(?:0|[1-9]\d*))(\.\d+)?([eE][-+]?\d+)?
ScanNumber(s, i) ==
    LET j == IF s[i] = "-" THEN i + 1 ELSE i
        intEnd == IF s[j] = "0" THEN j + 1 ELSE DigitsEnd(s, j)
        fracEnd == IF /\ intEnd + 1 <= Len(s)
                      /\ s[intEnd] = "."
                      /\ s[intEnd + 1] \in Digits
                   THEN DigitsEnd(s, intEnd + 1)
                   ELSE intEnd
        k == IF fracEnd + 1 <= Len(s) /\ s[fracEnd + 1] \in {"-", "+"}
             THEN fracEnd + 2
             ELSE fracEnd + 1
        expEnd == IF /\ fracEnd <= Len(s)
                     /\ s[fracEnd] \in {"e", "E"}
                     /\ k <= Len(s)
                     /\ s[k] \in Digits
                  THEN DigitsEnd(s, k)
                  ELSE fracEnd
        mag == IntVal(SubSeq(s, j, intEnd - 1))
    IN  IF j > Len(s) \/ s[j] \notin Digits THEN Fail
        ELSE IF expEnd > intEnd THEN Ok(JFloat(SubSeq(s, i, expEnd - 1)), expEnd)
        ELSE Ok(JInt(IF j > i THEN 0 - mag ELSE mag), intEnd)

NaNText == <<"N", "a", "N">>

InfinityText == <<"I", "n", "f", "i", "n", "i", "t", "y">>

RECURSIVE ScanOnce(_, _)
RECURSIVE ArrayItems(_, _, _)
RECURSIVE ObjectItems(_, _, _)

\* JSONArray, from the successor i of "["
JSONArray(s, i) ==
    LET j == SkipWs(s, i)
    IN  IF j <= Len(s) /\ s[j] = "]" THEN Ok(JArr(<<>>), j + 1)
        ELSE ArrayItems(s, j, <<>>)

\* JSONObject, from the successor i of "{"
JSONObject(s, i) ==
    LET j == SkipWs(s, i)
    IN  IF j > Len(s) THEN Fail
        ELSE IF s[j] = "}" THEN Ok(JObj(<<>>), j + 1)
        ELSE IF s[j] # "\"" THEN Fail
        ELSE ObjectItems(s, j + 1, <<>>)

ScanOnce(s, i) ==
    IF i > Len(s) THEN Fail
    ELSE IF s[i] = "\"" THEN ScanString(s, i + 1, <<>>)
    ELSE IF s[i] = "{" THEN JSONObject(s, i + 1)
    ELSE IF s[i] = "[" THEN JSONArray(s, i + 1)
    ELSE IF StartsWith(s, i, <<"n", "u", "l", "l">>) THEN Ok(JNull, i + 4)
    ELSE IF StartsWith(s, i, <<"t", "r", "u", "e">>) THEN Ok(JBool(TRUE), i + 4)
    ELSE IF StartsWith(s, i, <<"f", "a", "l", "s", "e">>)
    THEN Ok(JBool(FALSE), i + 5)
    ELSE IF ScanNumber(s, i).ok THEN ScanNumber(s, i)
    ELSE IF StartsWith(s, i, NaNText) THEN Ok(JFloat(NaNText), i + 3)
    ELSE IF StartsWith(s, i, InfinityText) THEN Ok(JFloat(InfinityText), i + 8)
    ELSE IF StartsWith(s, i, <<"-">> \o InfinityText)
    THEN Ok(JFloat(<<"-">> \o InfinityText), i + 9)
    ELSE Fail

ArrayItems(s, i, acc) ==
    LET v == ScanOnce(s, i)
        j == SkipWs(s, v.end)
    IN  IF ~v.ok THEN Fail
        ELSE IF j > Len(s) THEN Fail
        ELSE IF s[j] = "]" THEN Ok(JArr(Append(acc, v.val)), j + 1)
        ELSE IF s[j] # "," THEN Fail
        ELSE ArrayItems(s, SkipWs(s, j + 1), Append(acc, v.val))

\* the pairs of an object, from the successor i of a key's opening quote
ObjectItems(s, i, acc) ==
    LET key == ScanString(s, i, <<>>)
        j == SkipWs(s, key.end)
        v == ScanOnce(s, SkipWs(s, j + 1))
        m == SkipWs(s, v.end)
        n == SkipWs(s, m + 1)
        pairs == Put(acc, key.val.v, v.val)
    IN  IF ~key.ok THEN Fail
        ELSE IF j > Len(s) \/ s[j] # ":" THEN Fail
        ELSE IF ~v.ok THEN Fail
        ELSE IF m > Len(s) THEN Fail
        ELSE IF s[m] = "}" THEN Ok(JObj(pairs), m + 1)
        ELSE IF s[m] # "," THEN Fail
        ELSE IF n > Len(s) \/ s[n] # "\"" THEN Fail
        ELSE ObjectItems(s, n + 1, pairs)

\* json.loads(text): ok is FALSE where the decoder raises JSONDecodeError
json_loads(text) ==
    LET r == ScanOnce(text, SkipWs(text, 1))
    IN  IF ~r.ok THEN Fail
        ELSE IF SkipWs(text, r.end) # Len(text) + 1 THEN Fail
        ELSE r

(***************************************************************************)
(* Results of a call: a returned value or a raised exception.              *)
(***************************************************************************)
NoExc == [type |-> "", status_code |-> 0, detail |-> <<>>]

Return(v) == [raised |-> FALSE, value |-> v, exc |-> NoExc]

Raise(e) == [raised |-> TRUE, value |-> <<>>, exc |-> e]

HTTPException(status_code, detail) ==
    [type |-> "HTTPException", status_code |-> status_code, detail |-> detail]

\* an exception of the provider's client library, with its message
ProviderError(message) ==
    [type |-> "ProviderError", status_code |-> 0, detail |-> message]

DigitChar(d) ==
    CASE d = 0 -> "0" [] d = 1 -> "1" [] d = 2 -> "2" [] d = 3 -> "3"
      [] d = 4 -> "4" [] d = 5 -> "5" [] d = 6 -> "6" [] d = 7 -> "7"
      [] d = 8 -> "8" [] d = 9 -> "9"

\* str(n) of a natural number
RECURSIVE IntText(_)
IntText(n) ==
    IF n < 10 THEN <<DigitChar(n)>>
    ELSE IntText(n \div 10) \o <<DigitChar(n % 10)>>

\* str(e): an HTTPException prints "<status_code>: <detail>", any other
\* exception its message
ExcStr(e) ==
    IF e.type = "HTTPException"
    THEN IntText(e.status_code) \o <<":", " ">> \o e.detail
    ELSE e.detail

InvalidTypeDetail ==
    <<"I", "n", "v", "a", "l", "i", "d", " ", "e", "n", "h", "a", "n", "c",
      "e", "m", "e", "n", "t", " ", "t", "y", "p", "e">>

UnavailableDetail ==
    <<"A", "I", " ", "s", "e", "r", "v", "i", "c", "e", " ", "u", "n", "a",
      "v", "a", "i", "l", "a", "b", "l", "e">>

(***************************************************************************)
(* The completion client and the response shapers.                         *)
(***************************************************************************)
NoReply == [kind |-> "none", text |-> <<>>]

TextReply(text) == [kind |-> "text", text |-> text]

ErrorReply(message) == [kind |-> "error", text |-> message]

\* the mutant of UpstreamError: the provider's message passed on as detail
UpstreamErrorLeaking(message) == HTTPException(500, message)

\* raise HTTPException(status_code=500, detail="AI service unavailable")
UpstreamError(message) == HTTPException(500, UnavailableDetail)

\* call_claude, given what the provider's messages.create did
call_claude(outcome) ==
    IF outcome.kind = "text" THEN Return(outcome.text)
    ELSE Raise(UpstreamError(outcome.text))

\* the line call_claude logs when the provider call raises
ClaudeLogLine(outcome) ==
    [prefix |-> "Claude API error", text |-> ExcStr(ProviderError(outcome.text))]

\* a dict of one key
Dict1(key, value) == << <<key, value>> >>

RelatedLimit == 5

generate_seo_title_result(response) ==
    Return(Dict1("title", JStr(Strip(response))))

generate_meta_description_result(response) ==
    Return(Dict1("meta_description", JStr(Strip(response))))

generate_enhanced_content_result(response) ==
    Return(Dict1("enhanced_content", JStr(response)))

\* the mutant of generate_faq_result: JSONDecodeError not caught
generate_faq_result_uncaught(response) ==
    IF json_loads(response).ok
    THEN Return(Dict1("faq", json_loads(response).val))
    ELSE Raise(ProviderError(<<"E", "x", "p", "e", "c", "t", "i", "n", "g">>))

generate_faq_result(response) ==
    IF json_loads(response).ok
    THEN Return(Dict1("faq", json_loads(response).val))
    ELSE Return(Dict1("faq", JArr(<<>>)))

StripAll(items) == [i \in 1..Len(items) |-> Strip(items[i])]

JStrs(items) == [i \in 1..Len(items) |-> JStr(items[i])]

\* the mutant of generate_related_suggestions_result: the list not cut
generate_related_suggestions_result_uncut(response) ==
    Return(Dict1("related_drugs", JArr(JStrs(StripAll(Split(response, <<>>))))))

generate_related_suggestions_result(response) ==
    Return(Dict1("related_drugs",
                 JArr(JStrs(Take(StripAll(Split(response, <<>>)), RelatedLimit)))))

(***************************************************************************)
(* The /enhance handler around the provider call.                          *)
(***************************************************************************)
KnownTypes == {"title", "meta_description", "content", "faq", "related"}

\* the mutant of Dispatch: the kind matched without regard to case
DispatchAnyCase(enhancement_type) ==
    IF enhancement_type \in KnownTypes THEN enhancement_type
    ELSE IF enhancement_type = "Title" THEN "title"
    ELSE "invalid"

\* the if/elif chain on enhancement_type: the branch taken
Dispatch(enhancement_type) ==
    IF enhancement_type = "title" THEN "title"
    ELSE IF enhancement_type = "meta_description" THEN "meta_description"
    ELSE IF enhancement_type = "content" THEN "content"
    ELSE IF enhancement_type = "faq" THEN "faq"
    ELSE IF enhancement_type = "related" THEN "related"
    ELSE "invalid"

\* the prompt the taken branch builds
BuildPrompt(kind, drug) ==
    CASE kind = "title" -> generate_seo_title_prompt(drug)
      [] kind = "meta_description" -> generate_meta_description_prompt(drug)
      [] kind = "content" -> generate_enhanced_content_prompt(drug)
      [] kind = "faq" -> generate_faq_prompt(drug)
      [] kind = "related" -> generate_related_suggestions_prompt(drug)

\* what the taken branch makes of the provider's text
Shape(kind, response) ==
    CASE kind = "title" -> generate_seo_title_result(response)
      [] kind = "meta_description" -> generate_meta_description_result(response)
      [] kind = "content" -> generate_enhanced_content_result(response)
      [] kind = "faq" -> generate_faq_result(response)
      [] kind = "related" -> generate_related_suggestions_result(response)

\* the taken branch after its await of call_claude: a raise passes through
Generate(kind, outcome) ==
    IF call_claude(outcome).raised THEN call_claude(outcome)
    ELSE Shape(kind, call_claude(outcome).value)

\* AIEnhancementResponse(enhanced_content=enhanced_content, success=True)
SuccessResponse(enhanced_content) ==
    [status |-> 200,
     body |-> [enhanced_content |-> enhanced_content,
               success |-> TRUE,
               error_message |-> None]]

\* the mutant of ErrorResponse: no except clause, the framework answers
ErrorResponseUncaught(e) ==
    [status |-> IF e.type = "HTTPException" THEN e.status_code ELSE 500,
     body |-> [enhanced_content |-> <<>>,
               success |-> FALSE,
               error_message |-> None]]

\* the mutant of ErrorResponse: the partial content kept beside the error
ErrorResponseMixed(e) ==
    [status |-> 200,
     body |-> [enhanced_content |-> Dict1("error", JStr(ExcStr(e))),
               success |-> FALSE,
               error_message |-> Some(ExcStr(e))]]

\* except Exception as e: the failure shape, error_message=str(e)
ErrorResponse(e) ==
    [status |-> 200,
     body |-> [enhanced_content |-> <<>>,
               success |-> FALSE,
               error_message |-> Some(ExcStr(e))]]

\* the handler's return on either path of its try
Respond(result) ==
    IF result.raised THEN ErrorResponse(result.exc)
    ELSE SuccessResponse(result.value)

\* the line the handler's except clause logs
HandlerLogLine(e) == [prefix |-> "Error enhancing content", text |-> ExcStr(e)]

HealthResponse ==
    [status |-> 200, body |-> [status |-> "healthy", service |-> "ai-service"]]

(***************************************************************************)
(* State.  req: the requests in flight; pc: "pending" (delivered, handler  *)
(* not entered), "calling" (inside messages.create), "done"; loop: the     *)
(* request whose handler holds the event loop's thread, 0 when free;       *)
(* prompt: the prompt sent; calls, shaped: provider calls and shaper       *)
(* applications so far; reply: what the provider did; resp: the response;  *)
(* log: the lines logged.                                                  *)
(***************************************************************************)
Reqs == DOMAIN req

IsEnhance(r) == req[r].endpoint = "/enhance"

TypeOf(r) == req[r].body[1].enhancement_type

DrugOf(r) == req[r].body[1].drug_data

HealthReq == [endpoint |-> "/health", body |-> None]

EnhanceReq(enhancement_type, drug) ==
    [endpoint |-> "/enhance",
     body |-> Some([enhancement_type |-> enhancement_type, drug_data |-> drug])]

InitWith(n, bodies) ==
    /\ req \in [1..n -> bodies]
    /\ pc = [r \in 1..n |-> "pending"]
    /\ loop = 0
    /\ prompt = [r \in 1..n |-> <<>>]
    /\ calls = [r \in 1..n |-> 0]
    /\ shaped = [r \in 1..n |-> 0]
    /\ reply = [r \in 1..n |-> NoReply]
    /\ resp = [r \in 1..n |-> None]
    /\ log = {}

\* health_check: runs to its return once the loop's thread is free
HealthCheck(r) ==
    /\ pc[r] = "pending"
    /\ loop = 0
    /\ ~IsEnhance(r)
    /\ resp' = [resp EXCEPT ![r] = Some(HealthResponse)]
    /\ pc' = [pc EXCEPT ![r] = "done"]
    /\ UNCHANGED <<req, loop, prompt, calls, shaped, reply, log>>

\* enhance_drug_content from its entry: an unknown kind raises inside the
\* try and the except clause answers; a known kind builds its prompt and
\* enters the client's synchronous messages.create, the loop's thread kept
Enhance(r) ==
    /\ pc[r] = "pending"
    /\ loop = 0
    /\ IsEnhance(r)
    /\ IF Dispatch(TypeOf(r)) = "invalid"
       THEN /\ resp' = [resp EXCEPT ![r] =
                           Some(Respond(Raise(HTTPException(400, InvalidTypeDetail))))]
            /\ log' = log \cup {HandlerLogLine(HTTPException(400, InvalidTypeDetail))}
            /\ pc' = [pc EXCEPT ![r] = "done"]
            /\ UNCHANGED <<loop, prompt, calls>>
       ELSE /\ prompt' = [prompt EXCEPT ![r] =
                             BuildPrompt(Dispatch(TypeOf(r)), DrugOf(r))]
            /\ calls' = [calls EXCEPT ![r] = @ + 1]
            /\ pc' = [pc EXCEPT ![r] = "calling"]
            /\ loop' = r
            /\ UNCHANGED <<resp, log>>
    /\ UNCHANGED <<req, shaped, reply>>

\* messages.create returns text: the branch shapes it and the handler
\* returns, all without giving up the loop's thread
ProviderReturn(r, text) ==
    /\ pc[r] = "calling"
    /\ reply' = [reply EXCEPT ![r] = TextReply(text)]
    /\ shaped' = [shaped EXCEPT ![r] = @ + 1]
    /\ LET result == Generate(Dispatch(TypeOf(r)), TextReply(text))
       IN  /\ resp' = [resp EXCEPT ![r] = Some(Respond(result))]
           /\ log' = IF result.raised
                     THEN log \cup {HandlerLogLine(result.exc)}
                     ELSE log
    /\ pc' = [pc EXCEPT ![r] = "done"]
    /\ loop' = 0
    /\ UNCHANGED <<req, prompt, calls>>

\* messages.create (or reading content[0].text) raises: call_claude logs
\* and raises its HTTPException, which the handler's except clause answers
ProviderFail(r, message) ==
    /\ pc[r] = "calling"
    /\ reply' = [reply EXCEPT ![r] = ErrorReply(message)]
    /\ LET result == Generate(Dispatch(TypeOf(r)), ErrorReply(message))
       IN  /\ resp' = [resp EXCEPT ![r] = Some(Respond(result))]
           /\ log' = log \cup {ClaudeLogLine(ErrorReply(message)),
                               HandlerLogLine(result.exc)}
    /\ pc' = [pc EXCEPT ![r] = "done"]
    /\ loop' = 0
    /\ UNCHANGED <<req, prompt, calls, shaped>>

(***************************************************************************)
(* Inputs: request bodies, and what the provider may do.                   *)
(***************************************************************************)
Drug(name, generic_name, indications, contraindications, dosing, warnings) ==
    [name |-> name,
     generic_name |-> generic_name,
     manufacturer |-> <<"M">>,
     indications |-> indications,
     contraindications |-> contraindications,
     dosing |-> dosing,
     warnings |-> warnings,
     description |-> None]

\* all sequences over S of length at most n
SeqsUpTo(S, n) == UNION {[1..k -> S] : k \in 0..n}

DrugName == <<"x", "y">>

\* two drugs: one with every optional field absent, one populated
DispatchDrugs ==
    { Drug(DrugName, None, None, None, None, None),
      Drug(DrugName, Some(<<"g">>), Some(<< <<"a">>, <<"b">> >>),
           Some(<< <<"c">> >>), Some(<<"d">>), Some(<< <<"w">> >>)) }

\* enhancement_type values: the five kinds, and two that are none of them
RequestTypes == KnownTypes \cup {"bogus", "Title"}

\* the populated drug
FullDrug == CHOOSE d \in DispatchDrugs : d.generic_name # None

DispatchBodies ==
    {HealthReq} \cup {EnhanceReq(t, FullDrug) : t \in RequestTypes}

\* messages of the exceptions the provider call raises: authentication,
\* network, rate limit, and content[0] of an empty content list
AuthErrorText ==
    <<"i", "n", "v", "a", "l", "i", "d", " ", "x", "-", "a", "p", "i", "-",
      "k", "e", "y">>

NetworkErrorText ==
    <<"C", "o", "n", "n", "e", "c", "t", "i", "o", "n", " ", "e", "r", "r",
      "o", "r", ".">>

RateLimitErrorText ==
    <<"r", "a", "t", "e", "_", "l", "i", "m", "i", "t", "_", "e", "r", "r",
      "o", "r">>

MalformedErrorText ==
    <<"l", "i", "s", "t", " ", "i", "n", "d", "e", "x", " ", "o", "u", "t",
      " ", "o", "f", " ", "r", "a", "n", "g", "e">>

ProviderErrors ==
    {AuthErrorText, NetworkErrorText, RateLimitErrorText, MalformedErrorText}

QuestionKey ==
    <<"q", "u", "e", "s", "t", "i", "o", "n">>

AnswerKey ==
    <<"a", "n", "s", "w", "e", "r">>

FaqObj(q, a) == JObj(<< <<QuestionKey, JStr(q)>>, <<AnswerKey, JStr(a)>> >>)

\* json.dumps(value), with its ", " and ": " separators
RECURSIVE Dumps(_)
RECURSIVE DumpsItems(_)
RECURSIVE DumpsPairs(_)
Dumps(value) ==
    CASE value.t = "null" -> <<"n", "u", "l", "l">>
      [] value.t = "bool" ->
           IF value.v THEN <<"t", "r", "u", "e">> ELSE <<"f", "a", "l", "s", "e">>
      [] value.t = "int" -> IntText(value.v)
      [] value.t = "str" -> <<"\"">> \o value.v \o <<"\"">>
      [] value.t = "list" -> <<"[">> \o DumpsItems(value.v) \o <<"]">>
      [] value.t = "dict" -> <<"{">> \o DumpsPairs(value.v) \o <<"}">>

DumpsItems(items) ==
    IF items = <<>> THEN <<>>
    ELSE IF Len(items) = 1 THEN Dumps(items[1])
    ELSE Dumps(items[1]) \o <<",", " ">> \o DumpsItems(Tail(items))

DumpsPairs(pairs) ==
    IF pairs = <<>> THEN <<>>
    ELSE Dumps(JStr(pairs[1][1])) \o <<":", " ">> \o Dumps(pairs[1][2])
         \o (IF Len(pairs) = 1 THEN <<>>
             ELSE <<",", " ">> \o DumpsPairs(Tail(pairs)))

Questions ==
    { <<"Q">>, <<"W", "h", "y", "?">> }

Answers ==
    { <<"A">>, <<"5", " ", "m", "g">> }

FaqObjs == {FaqObj(q, a) : q \in Questions, a \in Answers}

\* the arrays of question/answer objects, up to MaxFaq entries
FaqArrays == {JArr(items) : items \in SeqsUpTo(FaqObjs, MaxFaq)}

ValidFaqTexts ==
    {Dumps(a) : a \in FaqArrays}
        \cup {<<"\n", " ">> \o Dumps(a) \o <<"\n">> : a \in FaqArrays}

\* valid JSON that is no array: object, string, numbers, null, booleans
NonArrayValues ==
    { FaqObj(<<"Q">>, <<"A">>), JObj(<<>>), JStr(<<"Q">>), JInt(7), JNull,
      JBool(TRUE), JBool(FALSE) }

NonArrayTexts ==
    {Dumps(v) : v \in NonArrayValues}
        \cup { <<"-", "1", "2">>, <<"1", ".", "5">>, <<"N", "a", "N">> }

ProseText ==
    <<"H", "e", "r", "e", " ", "a", "r", "e", " ", "5", " ", "F", "A", "Q",
      "s", ":">>

\* texts json.loads rejects: every array text cut short, prose, prose
\* around an array, a trailing comma, single quotes, text after the value
InvalidTexts ==
    {SubSeq(Dumps(a), 1, k) : a \in FaqArrays \ {JArr(<<>>)}, k \in 0..1}
        \cup UNION {{SubSeq(Dumps(a), 1, k) : k \in 0..(Len(Dumps(a)) - 1)} :
                      a \in FaqArrays}
        \cup {ProseText}
        \cup {ProseText \o <<" ">> \o Dumps(a) : a \in FaqArrays}
        \cup {Dumps(a) \o <<" ">> \o ProseText : a \in FaqArrays}
        \cup { <<"[", "{", "}", ",", "]">>,
               <<"[", "'", "Q", "'", "]">>,
               <<"[", "]", "[", "]">>,
               <<"{", "\"", "Q", "\"", "}">>,
               <<"[", "\"", "\t", "\"", "]">> }

FaqTexts == ValidFaqTexts \cup NonArrayTexts \cup InvalidTexts

\* the characters of the raw texts given to the `related` shaper
RelChars == {"a", " ", ","}

RelTexts == SeqsUpTo(RelChars, MaxRelLen)

\* texts for the dispatch specification: a padded line, an FAQ array, a list
DispatchTexts ==
    { <<" ", "T", "\n">>,
      Dumps(JArr(<<FaqObj(<<"Q">>, <<"A">>)>>)),
      <<"a", ",", " ", "b">> }

ItemStrs == { <<>>, <<"a">>, <<"b">> }

OptStrs == {None, Some(<<>>), Some(<<"g">>), Some(NoneText)}

OptLists == {None} \cup {Some(l) : l \in SeqsUpTo(ItemStrs, MaxItems)}

SideLists == {None, Some(<<>>), Some(<< <<"a">>, <<"b">> >>)}

PromptDrugs ==
    { Drug(DrugName, g, i, c, d, w) :
        g \in OptStrs, i \in OptLists, c \in SideLists,
        d \in {None, Some(<<>>), Some(<<"d">>)}, w \in SideLists }

(***************************************************************************)
(* Specifications.                                                         *)
(***************************************************************************)
Init == InitWith(NumReqs, DispatchBodies)

Next ==
    \/ \E r \in Reqs : HealthCheck(r)
    \/ \E r \in Reqs : Enhance(r)
    \/ \E r \in Reqs, text \in DispatchTexts : ProviderReturn(r, text)
    \/ \E r \in Reqs, message \in ProviderErrors : ProviderFail(r, message)

\* concurrent requests of every kind on one event loop
Spec == Init /\ [][Next]_vars

InitRelated == InitWith(1, {EnhanceReq("related", d) : d \in DispatchDrugs})

NextRelated ==
    \/ \E r \in Reqs : Enhance(r)
    \/ \E r \in Reqs, text \in RelTexts : ProviderReturn(r, text)
    \/ \E r \in Reqs, message \in ProviderErrors : ProviderFail(r, message)

\* one `related` request, the provider's text any text of RelTexts
SpecRelated == InitRelated /\ [][NextRelated]_vars

InitFaq == InitWith(1, {EnhanceReq("faq", d) : d \in DispatchDrugs})

NextFaq ==
    \/ \E r \in Reqs : Enhance(r)
    \/ \E r \in Reqs, text \in FaqTexts : ProviderReturn(r, text)
    \/ \E r \in Reqs, message \in ProviderErrors : ProviderFail(r, message)

\* one `faq` request, the provider's text any text of FaqTexts
SpecFaq == InitFaq /\ [][NextFaq]_vars

InitPrompt ==
    InitWith(1, {EnhanceReq(t, d) : t \in KnownTypes, d \in PromptDrugs})

NextPrompt ==
    \/ \E r \in Reqs : Enhance(r)
    \/ \E r \in Reqs, text \in {<<"T">>} : ProviderReturn(r, text)
    \/ \E r \in Reqs, message \in {NetworkErrorText} : ProviderFail(r, message)

\* one request of a known kind, its drug any drug of PromptDrugs
SpecPrompt == InitPrompt /\ [][NextPrompt]_vars

(***************************************************************************)
(* Vocabulary of the properties.                                           *)
(***************************************************************************)
Done(r) == pc[r] = "done"

StatusOf(r) == resp[r][1].status

BodyOf(r) == resp[r][1].body

ProviderFailed(r) == reply[r].kind = "error"

ProviderAnswered(r) == reply[r].kind = "text"

\* needle occurs in hay as a run of consecutive characters
Contains(hay, needle) ==
    \E i \in 0..(Len(hay) - Len(needle)) :
        SubSeq(hay, i + 1, i + Len(needle)) = needle

\* the one key of enhanced_content each kind is documented to carry
KeyOf(kind) ==
    CASE kind = "title" -> "title"
      [] kind = "meta_description" -> "meta_description"
      [] kind = "content" -> "enhanced_content"
      [] kind = "faq" -> "faq"
      [] kind = "related" -> "related_drugs"

\* a 200 success body holding exactly this mapping
IsSuccessWith(r, content) ==
    /\ resp[r] # None
    /\ StatusOf(r) = 200
    /\ BodyOf(r).success = TRUE
    /\ BodyOf(r).error_message = None
    /\ BodyOf(r).enhanced_content = content

(***************************************************************************)
(* C1 - C6: the dispatch specification.                                    *)
(***************************************************************************)
\* C1: every finished /enhance request whose enhancement_type is none of
\* the five kinds (compared case-sensitively) is answered with status 400
\* and a detail message, not with a 200 response body.
C1_InvalidTypeAnswered400 ==
    \A r \in Reqs :
        (Done(r) /\ IsEnhance(r) /\ TypeOf(r) \notin KnownTypes)
            => StatusOf(r) = 400

\* C2: for each of the five kinds, when the provider call fails the handler
\* still answers: status 200, success false, enhanced_content the empty
\* mapping and a non-empty error_message.
C2_ProviderFailureAnswered ==
    \A r \in Reqs :
        (IsEnhance(r) /\ TypeOf(r) \in KnownTypes /\ ProviderFailed(r))
            => /\ Done(r)
               /\ resp[r] # None
               /\ StatusOf(r) = 200
               /\ BodyOf(r).success = FALSE
               /\ BodyOf(r).enhanced_content = <<>>
               /\ BodyOf(r).error_message # None
               /\ BodyOf(r).error_message[1] # <<>>

\* two requests of different kinds, both answered after a failed call
C2_Witness ==
    \E a, b \in Reqs :
        /\ IsEnhance(a) /\ TypeOf(a) = "faq" /\ ProviderFailed(a) /\ Done(a)
        /\ IsEnhance(b) /\ TypeOf(b) = "title" /\ ProviderFailed(b) /\ Done(b)

\* C3: the provider is called zero times for a request of unknown kind and
\* exactly once for a finished request of a known kind, never more than
\* once; after a failed call the request is finished with no further call
\* and no shaper applied.
C3_ProviderCalledOnce ==
    \A r \in Reqs :
        /\ calls[r] <= 1
        /\ (IsEnhance(r) /\ TypeOf(r) \notin KnownTypes)
              => (calls[r] = 0 /\ shaped[r] = 0)
        /\ (Done(r) /\ IsEnhance(r) /\ TypeOf(r) \in KnownTypes)
              => calls[r] = 1
        /\ ProviderFailed(r) => (Done(r) /\ calls[r] = 1 /\ shaped[r] = 0)

\* one request of unknown kind and one whose provider call failed, both
\* finished
C3_Witness ==
    \E a, b \in Reqs :
        /\ IsEnhance(a) /\ TypeOf(a) = "Title" /\ Done(a) /\ calls[a] = 0
        /\ IsEnhance(b) /\ TypeOf(b) \in KnownTypes /\ Done(b)
        /\ ProviderFailed(b) /\ calls[b] = 1

\* C4: two requests with the same body whose provider calls failed, with
\* whatever provider errors, get identical responses, and no error_message
\* contains the text of a provider exception.
C4_NoProviderDetailLeaked ==
    /\ \A a, b \in Reqs :
          (/\ Done(a) /\ Done(b)
           /\ ProviderFailed(a) /\ ProviderFailed(b)
           /\ req[a] = req[b])
              => resp[a] = resp[b]
    /\ \A r \in Reqs :
          (Done(r) /\ ProviderFailed(r))
              => /\ BodyOf(r).error_message # None
                 /\ \A e \in ProviderErrors :
                       ~Contains(BodyOf(r).error_message[1], e)

\* two requests with the same body answered after different provider errors
C4_Witness ==
    \E a, b \in Reqs :
        /\ a # b /\ req[a] = req[b]
        /\ Done(a) /\ Done(b)
        /\ ProviderFailed(a) /\ ProviderFailed(b)
        /\ reply[a].text = AuthErrorText
        /\ reply[b].text = RateLimitErrorText

\* C5: while one request's provider call is outstanding its handling has
\* yielded: any other request whose handler is yet to run can take its step.
C5_OthersProceedDuringCall ==
    \A a, b \in Reqs :
        (a # b /\ pc[a] = "calling" /\ pc[b] = "pending")
            => ENABLED (HealthCheck(b) \/ Enhance(b))

\* what the code does instead: while a provider call is outstanding no
\* other request moves
NoStepDuringCall ==
    [][\A a \in Reqs :
          pc[a] = "calling" => \A b \in Reqs \ {a} : pc'[b] = pc[b]]_vars

\* C6: every /enhance response body is one of the two shapes: success with
\* no error_message and exactly the one key of the requested kind, or
\* failure with the empty mapping and an error_message.
C6_TaggedResult ==
    \A r \in Reqs :
        (Done(r) /\ IsEnhance(r))
            => \/ /\ BodyOf(r).success = TRUE
                  /\ BodyOf(r).error_message = None
                  /\ TypeOf(r) \in KnownTypes
                  /\ Len(BodyOf(r).enhanced_content) = 1
                  /\ BodyOf(r).enhanced_content[1][1] = KeyOf(TypeOf(r))
               \/ /\ BodyOf(r).success = FALSE
                  /\ BodyOf(r).enhanced_content = <<>>
                  /\ BodyOf(r).error_message # None

\* a success body and a failure body, both returned
C6_Witness ==
    \E a, b \in Reqs :
        /\ IsEnhance(a) /\ Done(a) /\ BodyOf(a).success = TRUE
        /\ TypeOf(a) = "content"
        /\ IsEnhance(b) /\ Done(b) /\ BodyOf(b).success = FALSE
        /\ ProviderFailed(b)

(***************************************************************************)
(* C7: the `related` shaper, under SpecRelated.                            *)
(***************************************************************************)
CommaCount(s) == Cardinality({i \in 1..Len(s) : s[i] = ","})

\* the position of the k-th comma of s; 0 for k = 0, Len(s) + 1 past the last
CommaAt(s, k) ==
    IF k = 0 THEN 0
    ELSE IF k > CommaCount(s) THEN Len(s) + 1
    ELSE CHOOSE i \in 1..Len(s) :
            /\ s[i] = ","
            /\ Cardinality({j \in 1..i : s[j] = ","}) = k

\* the k-th comma-separated item of s
ItemAt(s, k) == SubSeq(s, CommaAt(s, k - 1) + 1, CommaAt(s, k) - 1)

\* out is item with its leading and trailing whitespace removed
IsTrimOf(out, item) ==
    \E a \in 0..Len(item) :
        \E b \in a..Len(item) :
            /\ out = SubSeq(item, a + 1, b)
            /\ \A k \in 1..a : item[k] \in Whitespace
            /\ \A k \in (b + 1)..Len(item) : item[k] \in Whitespace
            /\ out = <<>> \/ (out[1] \notin Whitespace /\ out[Len(out)] \notin Whitespace)

RelatedOut(r) == BodyOf(r).enhanced_content[1][2].v

\* C7: for any raw text of n comma-separated items, related_drugs is the
\* first min(5, n) items in their order, each with its leading and trailing
\* whitespace removed.
C7_RelatedFirstFiveTrimmed ==
    \A r \in Reqs :
        (Done(r) /\ ProviderAnswered(r))
            => LET raw == reply[r].text
                   n == CommaCount(raw) + 1
               IN  /\ BodyOf(r).success = TRUE
                   /\ Len(BodyOf(r).enhanced_content) = 1
                   /\ BodyOf(r).enhanced_content[1][1] = "related_drugs"
                   /\ BodyOf(r).enhanced_content[1][2].t = "list"
                   /\ Len(RelatedOut(r)) = (IF n < 5 THEN n ELSE 5)
                   /\ \A k \in 1..Len(RelatedOut(r)) :
                         /\ RelatedOut(r)[k].t = "str"
                         /\ IsTrimOf(RelatedOut(r)[k].v, ItemAt(raw, k))

\* a text of six items, one of them padded, cut to five trimmed entries
C7_Witness ==
    \E r \in Reqs :
        /\ Done(r) /\ ProviderAnswered(r)
        /\ CommaCount(reply[r].text) = 5
        /\ Len(RelatedOut(r)) = 5
        /\ \E k \in 1..5 :
              /\ RelatedOut(r)[k].v = <<"a">>
              /\ ItemAt(reply[r].text, k) # <<"a">>

(***************************************************************************)
(* C8, C10: the `faq` shaper, under SpecFaq.                               *)
(***************************************************************************)
\* C8: a raw text that is the JSON of an array of question/answer objects
\* comes back as that array, entries and order unchanged; a raw text that
\* is not valid JSON comes back as the empty list, the request succeeding.
C8_FaqRoundTrip ==
    \A r \in Reqs :
        (Done(r) /\ ProviderAnswered(r))
            => /\ \A a \in FaqArrays :
                     reply[r].text \in {Dumps(a), <<"\n", " ">> \o Dumps(a) \o <<"\n">>}
                        => IsSuccessWith(r, << <<"faq", a>> >>)
               /\ reply[r].text \in InvalidTexts
                     => IsSuccessWith(r, << <<"faq", JArr(<<>>)>> >>)

\* an array of two different entries returned as it was sent
C8_Witness ==
    \E r \in Reqs :
        /\ Done(r) /\ ProviderAnswered(r)
        /\ \E a \in FaqArrays :
              /\ Len(a.v) = 2 /\ a.v[1] # a.v[2]
              /\ reply[r].text = Dumps(a)
              /\ IsSuccessWith(r, << <<"faq", a>> >>)

\* a text cut short inside an entry answered with the empty list
C8_WitnessInvalid ==
    \E r \in Reqs :
        /\ Done(r) /\ ProviderAnswered(r)
        /\ reply[r].text \in InvalidTexts
        /\ Len(reply[r].text) > 10
        /\ IsSuccessWith(r, << <<"faq", JArr(<<>>)>> >>)

\* C10: in every successful faq response the faq value is a list, whatever
\* the raw text: JSON of another type degrades to the empty list.
C10_FaqAlwaysList ==
    \A r \in Reqs :
        (Done(r) /\ ProviderAnswered(r) /\ BodyOf(r).success = TRUE)
            => /\ BodyOf(r).enhanced_content[1][1] = "faq"
               /\ BodyOf(r).enhanced_content[1][2].t = "list"

(***************************************************************************)
(* C9: the prompt builders, under SpecPrompt.                              *)
(***************************************************************************)
\* the optional fields each kind's template shows, and their labels
StrFields(kind) ==
    IF kind = "content" THEN {"generic_name", "dosing"} ELSE {"generic_name"}

ListFields(kind) ==
    IF kind = "content"
    THEN {"indications", "contraindications", "warnings"}
    ELSE {"indications"}

LabelOf(field) ==
    CASE field = "generic_name" -> "Generic Name"
      [] field = "dosing" -> "Dosing"
      [] field = "indications" -> "Indications"
      [] field = "contraindications" -> "Contraindications"
      [] field = "warnings" -> "Warnings"

HasLine(p, label) == \E i \in 1..Len(p) : p[i].label = label

ValueAt(p, label) == p[CHOOSE i \in 1..Len(p) : p[i].label = label].value

\* where item k of a ", "-joined list starts, less one
RECURSIVE OffsetOf(_, _)
OffsetOf(items, k) ==
    IF k = 1 THEN 0 ELSE OffsetOf(items, k - 1) + Len(items[k - 1]) + 2

\* text is the items in their order with ", " between neighbours
IsJoinOf(text, items) ==
    /\ items # <<>>
    /\ Len(text) = OffsetOf(items, Len(items)) + Len(items[Len(items)])
    /\ \A k \in 1..Len(items) :
          /\ SubSeq(text, OffsetOf(items, k) + 1,
                    OffsetOf(items, k) + Len(items[k])) = items[k]
          /\ k > 1 => /\ text[OffsetOf(items, k) - 1] = ","
                      /\ text[OffsetOf(items, k)] = " "

Absent(opt) == opt = None \/ opt[1] = <<>>

\* the field shows as N/A when absent or empty, otherwise as its value
ShownAsClaimed(p, drug, field, isList) ==
    /\ HasLine(p, LabelOf(field))
    /\ IF Absent(drug[field]) THEN ValueAt(p, LabelOf(field)) = NA
       ELSE IF isList THEN IsJoinOf(ValueAt(p, LabelOf(field)), drug[field][1])
       ELSE ValueAt(p, LabelOf(field)) = drug[field][1]

PromptBuilt(r) == pc[r] # "pending"

ContainsName(p, drug) ==
    \E i \in 1..Len(p) : p[i].label = "Drug" /\ p[i].value = drug.name

\* C9 as stated: the prompt holds the drug's name; each optional field
\* shown is N/A when absent, an empty string or an empty list, otherwise
\* its value, lists joined by ", " in order; and no shown field is ever
\* the text None or empty.
C9_NeverNoneNorEmpty ==
    \A r \in Reqs :
        PromptBuilt(r)
            => /\ ContainsName(prompt[r], DrugOf(r))
               /\ \A f \in StrFields(TypeOf(r)) :
                     /\ ShownAsClaimed(prompt[r], DrugOf(r), f, FALSE)
                     /\ ValueAt(prompt[r], LabelOf(f)) \notin {NoneText, <<>>}
               /\ \A f \in ListFields(TypeOf(r)) :
                     /\ ShownAsClaimed(prompt[r], DrugOf(r), f, TRUE)
                     /\ ValueAt(prompt[r], LabelOf(f)) \notin {NoneText, <<>>}

\* C9 as amended: the same, except that a shown field is the text None
\* only when the field's own value spells None, and is empty only when the
\* field is a list of one empty string.
C9_NoneOrEmptyOnlyFromValue ==
    \A r \in Reqs :
        PromptBuilt(r)
            => /\ ContainsName(prompt[r], DrugOf(r))
               /\ \A f \in StrFields(TypeOf(r)) :
                     /\ ShownAsClaimed(prompt[r], DrugOf(r), f, FALSE)
                     /\ ValueAt(prompt[r], LabelOf(f)) # <<>>
                     /\ ValueAt(prompt[r], LabelOf(f)) = NoneText
                           => DrugOf(r)[f] = Some(NoneText)
               /\ \A f \in ListFields(TypeOf(r)) :
                     /\ ShownAsClaimed(prompt[r], DrugOf(r), f, TRUE)
                     /\ ValueAt(prompt[r], LabelOf(f)) = <<>>
                           => DrugOf(r)[f] = Some(<< <<>> >>)
                     /\ ValueAt(prompt[r], LabelOf(f)) = NoneText
                           => /\ ~Absent(DrugOf(r)[f])
                              /\ IsJoinOf(NoneText, DrugOf(r)[f][1])

\* a content prompt with an absent name, an empty dosing, a joined list,
\* an empty list and an absent list
C9_Witness ==
    \E r \in Reqs :
        /\ PromptBuilt(r) /\ TypeOf(r) = "content"
        /\ DrugOf(r).generic_name = None
        /\ DrugOf(r).dosing = Some(<<>>)
        /\ DrugOf(r).indications = Some(<< <<"b">>, <<"a">> >>)
        /\ DrugOf(r).contraindications = Some(<<>>)
        /\ DrugOf(r).warnings = None
        /\ ValueAt(prompt[r], "Generic Name") = NA
        /\ ValueAt(prompt[r], "Indications") = <<"b", ",", " ", "a">>

=============================================================================
